---- MODULE Spec2Model ----
(***************************************************************************)
(* Model of the ChatRoom server (src/ChatRoom/server.cpp) and of the       *)
(* chat_message frame codec it shares with the client header               *)
(* (src/unnamed/part_000).                                                 *)
(*                                                                         *)
(* A std::string is a sequence of character codes.  A char is modelled by  *)
(* its bit pattern 0..255; whether the build reads it as signed or         *)
(* unsigned is implementation-defined and is the variable char_signed.     *)
(* An int is modelled as its four bytes, most significant first, in two's  *)
(* complement.  The fixed literal texts of the server are single codes     *)
(* above 255, so they can never be confused with payload bytes.            *)
(***************************************************************************)
EXTENDS Integers, Sequences, FiniteSets, TLC

\* ------------------------------------------------------------- constants
header_length == 4
max_body_length == 512
max_recent_msgs == 100

\* ---------------------------------------------------------------- bounds
\* frames ever enqueued on one session in Spec
MaxFrames == 5
\* Room.deliver calls in Spec
MaxDelivered == 2
\* Room.deliver calls in SpecFrame
MaxFrameDelivered == 1
\* Room.deliver calls in SpecHistory (one more than max_recent_msgs + 1)
MaxHistDelivered == 102
\* longest message handed to the chat_message constructor in SpecCodec
MaxMsgLen == 515
\* frames ever enqueued on one session in SpecPayload
MaxPayloadFrames == 3
\* Room.deliver calls in SpecPayload
MaxPayloadDelivered == 1
\* accept errors counted in SpecListener
MaxAcceptErrors == 2

\* the sessions the listener can create, in the order it creates them
Sessions == {1, 2}

VARIABLES
    char_signed,    \* the build's choice: TRUE when plain char is signed
    cm,             \* a chat_message object on its own (SpecCodec)
    cm_src,         \* how cm's header was produced: constructor or raw bytes
    cm_ret,         \* what decode_header returned on cm: "none" before the call
    acceptor_op,    \* outstanding async_accept operations of chat_server
    nsessions,      \* sessions created so far: 1..nsessions exist
    state_,         \* chat_session::state_
    nickname_,      \* chat_session::nickname_
    read_msg_,      \* chat_session::read_msg_
    write_msgs_,    \* chat_session::write_msgs_
    rd_op,          \* the session's outstanding async_read: none, header, body
    wr_op,          \* the session's outstanding async_write operations
    self_refs,      \* the session's pending handlers that captured `self`
    participants_,  \* chat_room::participants_
    recent_msgs_,   \* chat_room::recent_msgs_
    enqlog,         \* history: every frame chat_session::deliver enqueued
    wire,           \* history: every frame whose async_write completed
    failure,        \* history: the failures each session's handlers have seen
    delivered,      \* history: every chat_room::deliver call, sender and text
    accept_errors   \* history: accepts that completed with an error (capped)

vars == <<char_signed, cm, cm_src, cm_ret, acceptor_op, nsessions, state_,
          nickname_, read_msg_, write_msgs_, rd_op, wr_op, participants_,
          recent_msgs_, enqlog, wire, failure, delivered, self_refs,
          accept_errors>>

codecVars == <<cm, cm_src, cm_ret>>
serverVars == <<acceptor_op, nsessions, state_, nickname_, read_msg_,
                write_msgs_, rd_op, wr_op, participants_, recent_msgs_,
                enqlog, wire, failure, delivered, self_refs, accept_errors>>

\* ------------------------------------------------------------- integers
Min(a, b) == IF a < b THEN a ELSE b

RECURSIVE BitOr(_, _)
\* bitwise | of two values in 0..255
BitOr(a, b) ==
    IF a = 0 THEN b
    ELSE IF b = 0 THEN a
    ELSE (IF a % 2 = 1 \/ b % 2 = 1 THEN 1 ELSE 0)
         + 2 * BitOr(a \div 2, b \div 2)

\* integral promotion of a char with bit pattern c to int
Promote(c) ==
    IF char_signed /\ c >= 128 THEN <<255, 255, 255, c>> ELSE <<0, 0, 0, c>>

\* w << (8 * j) on a 32-bit int: the high bytes fall off
ShiftLeft(w, j) == [i \in 1..4 |-> IF i + j <= 4 THEN w[i + j] ELSE 0]

\* x | y on 32-bit ints
Or32(x, y) == [i \in 1..4 |-> BitOr(x[i], y[i])]

\* the int is negative: converted to std::size_t it is 2^64 minus something
IsNegative(w) == w[1] >= 128

\* the value of a non-negative int
IntValue(w) == ((w[1] * 256 + w[2]) * 256 + w[3]) * 256 + w[4]

\* ---------------------------------------------------------- chat_message
ZeroHeader == <<0, 0, 0, 0>>

\* chat_message(): body_length_ 0 and a zeroed header
EmptyMessage == [body_length_ |-> 0, hdr |-> ZeroHeader, body |-> <<>>]

\* encode_header: the four bytes written to data_[0..3]
encode_header(n) ==
    << (n \div 16777216) % 256, (n \div 65536) % 256, (n \div 256) % 256, n % 256 >>

\* the int that decode_header computes from data_[0..3]
HeaderInt(h) ==
    Or32(Or32(Or32(ShiftLeft(Promote(h[1]), 3), ShiftLeft(Promote(h[2]), 2)),
              ShiftLeft(Promote(h[3]), 1)),
         Promote(h[4]))

\* decode_header as it would be if an oversized length were cut to the
\* maximum, the way body_length(new_length) cuts it, instead of refused
decode_header_clamps(m) ==
    LET v == HeaderInt(m.hdr)
        tooLong == IsNegative(v) \/ IntValue(v) > max_body_length
    IN  IF tooLong
        THEN [msg |-> [m EXCEPT !.body_length_ = max_body_length], ret |-> TRUE]
        ELSE [msg |-> [m EXCEPT !.body_length_ = IntValue(v)], ret |-> TRUE]

\* decode_header on a message whose header bytes are m.hdr: the message
\* afterwards and the value returned
decode_header(m) ==
    LET v == HeaderInt(m.hdr)
        tooLong == IsNegative(v) \/ IntValue(v) > max_body_length
    IN  IF tooLong
        THEN [msg |-> [m EXCEPT !.body_length_ = 0], ret |-> FALSE]
        ELSE [msg |-> [m EXCEPT !.body_length_ = IntValue(v)], ret |-> TRUE]

\* chat_message(std::string const&) as it would be without the cut of the
\* length to max_body_length
ChatMessage_uncut(msg) ==
    [body_length_ |-> Len(msg), hdr |-> encode_header(Len(msg)), body |-> msg]

\* chat_message(std::string const&): the length is cut to max_body_length,
\* that many bytes are copied and the header is encoded
ChatMessage(msg) ==
    LET n == Min(Len(msg), max_body_length)
    IN  [body_length_ |-> n, hdr |-> encode_header(n), body |-> SubSeq(msg, 1, n)]

\* length(): the bytes async_write sends
FrameLength(m) == header_length + m.body_length_

\* the big-endian unsigned value of four header bytes exceeds max_body_length
HeaderExceeds(h) == h[1] > 0 \/ h[2] > 0 \/ h[3] * 256 + h[4] > max_body_length

\* a payload of n bytes
Filler(n) == [i \in 1..n |-> 97]

\* byte values at the edges of the ranges that matter to the decoder
ByteSamples == {0, 1, 2, 127, 128, 255}
HeaderSamples == {<<a, b, c, d>> : a \in ByteSamples, b \in ByteSamples,
                                   c \in ByteSamples, d \in ByteSamples}

\* ------------------------------------------------- the codec on its own
\* The client header's chat_message() leaves data_ unset where the
\* server's zeroes the header; no action below reads a header before the
\* constructor or a read has written it, so the difference is never seen.
CodecInit ==
    /\ cm = EmptyMessage
    /\ cm_src = [kind |-> "none", n |-> 0]
    /\ cm_ret = "none"

\* chat_message(msg) for a message of n bytes
CodecConstruct(n) ==
    /\ cm_src.kind = "none"
    /\ cm' = ChatMessage(Filler(n))
    /\ cm_src' = [kind |-> "ctor", n |-> n]
    /\ cm_ret' = "none"
    /\ UNCHANGED <<char_signed, serverVars>>

\* a fresh chat_message() whose data() then receives four bytes from the
\* peer, as async_read does with read_msg_
CodecFill(h) ==
    /\ cm_src.kind = "none"
    /\ cm' = [EmptyMessage EXCEPT !.hdr = h]
    /\ cm_src' = [kind |-> "bytes", n |-> 0]
    /\ cm_ret' = "none"
    /\ UNCHANGED <<char_signed, serverVars>>

\* decode_header() on the object
CodecDecode ==
    /\ cm_src.kind # "none"
    /\ cm_ret = "none"
    /\ cm' = decode_header(cm).msg
    /\ cm_ret' = IF decode_header(cm).ret THEN "true" ELSE "false"
    /\ UNCHANGED <<char_signed, cm_src, serverVars>>

\* the object goes away and the next one starts from scratch
CodecDiscard ==
    /\ cm_ret # "none"
    /\ cm' = EmptyMessage
    /\ cm_src' = [kind |-> "none", n |-> 0]
    /\ cm_ret' = "none"
    /\ UNCHANGED <<char_signed, serverVars>>

CodecNext ==
    \/ \E n \in 0..MaxMsgLen : CodecConstruct(n)
    \/ \E h \in HeaderSamples : CodecFill(h)
    \/ CodecDecode
    \/ CodecDiscard

\* ------------------------------------------------------------ the texts
\* the room name chat_server gives its room: "10001"
RoomName == <<49, 48, 48, 48, 49>>
\* the two literal parts of the welcome line around the room name
WelcomeL == <<1001>>
WelcomeR == <<1002>>
\* the confirmation line sent once the name is accepted
ConfirmText == <<1003>>
\* the line that closes the replayed history
DelimiterText == <<1004>>
\* the literal that follows the nickname in a join notice
JoinedText == <<1005>>
\* " says: "
SaysText == <<32, 115, 97, 121, 115, 58, 32>>
\* "system prompt: "
SystemPromptText == <<115, 121, 115, 116, 101, 109, 32, 112, 114, 111, 109, 112, 116, 58, 32>>

WelcomeText == WelcomeL \o RoomName \o WelcomeR
\* what chat_room::deliver stores and broadcasts
SaysLine(nick, msg) == nick \o SaysText \o msg
\* what chat_room::join hands to system_prompt
JoinNotice(nick) == nick \o JoinedText
\* what system_prompt broadcasts
SystemLine(msg) == SystemPromptText \o msg

\* ------------------------------------------- the server's mutable state
\* The handlers below are functions from one such record to the next.
World ==
    [state_ |-> state_, nickname_ |-> nickname_, read_msg_ |-> read_msg_,
     write_msgs_ |-> write_msgs_, rd_op |-> rd_op, wr_op |-> wr_op,
     participants_ |-> participants_, recent_msgs_ |-> recent_msgs_,
     enqlog |-> enqlog, wire |-> wire, failure |-> failure,
     delivered |-> delivered, self_refs |-> self_refs]

SetWorld(W) ==
    /\ state_' = W.state_
    /\ nickname_' = W.nickname_
    /\ read_msg_' = W.read_msg_
    /\ write_msgs_' = W.write_msgs_
    /\ rd_op' = W.rd_op
    /\ wr_op' = W.wr_op
    /\ participants_' = W.participants_
    /\ recent_msgs_' = W.recent_msgs_
    /\ enqlog' = W.enqlog
    /\ wire' = W.wire
    /\ failure' = W.failure
    /\ delivered' = W.delivered
    /\ self_refs' = W.self_refs

\* ---------------------------------------------------------- chat_session
\* do_write as it would be with a handler that captures only `this`
do_write_captures_this(W, s) == [W EXCEPT !.wr_op[s] = @ + 1]

\* do_write: one async_write of write_msgs_.front() is started; its handler
\* holds self, a shared_ptr to the session
do_write(W, s) ==
    [W EXCEPT !.wr_op[s] = @ + 1, !.self_refs[s] = @ \cup {"write"}]

\* chat_session::deliver as it would be if it started a write on every call
session_deliver_always_writes(W, s, msg) ==
    do_write([W EXCEPT !.write_msgs_[s] = Append(@, ChatMessage(msg)),
                       !.enqlog[s] = Append(@, ChatMessage(msg))], s)

\* chat_session::deliver
session_deliver(W, s, msg) ==
    LET write_in_progress == W.write_msgs_[s] # <<>>
        W1 == [W EXCEPT !.write_msgs_[s] = Append(@, ChatMessage(msg)),
                        !.enqlog[s] = Append(@, ChatMessage(msg))]
    IN  IF ~write_in_progress THEN do_write(W1, s) ELSE W1

\* do_read_header, do_read_body: one async_read is started; its handler
\* holds self
do_read_header(W, s) ==
    [W EXCEPT !.rd_op[s] = "header", !.self_refs[s] = @ \cup {"read"}]
do_read_body(W, s) ==
    [W EXCEPT !.rd_op[s] = "body", !.self_refs[s] = @ \cup {"read"}]

\* ------------------------------------------------------------- chat_room
RECURSIVE deliver_each(_, _, _)
\* participant->deliver(text) for every participant of the set ps, in the
\* order of the std::set
deliver_each(W, ps, text) ==
    IF ps = {} THEN W
    ELSE LET p == CHOOSE x \in ps : \A y \in ps : x <= y
         IN  deliver_each(session_deliver(W, p, text), ps \ {p}, text)

RECURSIVE replay_newest_first(_, _, _)
\* the loop of join as it would be over recent_msgs_ from back to front
replay_newest_first(W, p, msgs) ==
    IF msgs = <<>> THEN W
    ELSE replay_newest_first(session_deliver(W, p, msgs[Len(msgs)]), p,
                             SubSeq(msgs, 1, Len(msgs) - 1))

RECURSIVE replay(_, _, _)
\* the loop of join over recent_msgs_, front to back
replay(W, p, msgs) ==
    IF msgs = <<>> THEN W
    ELSE replay(session_deliver(W, p, Head(msgs)), p, Tail(msgs))

\* chat_room::system_prompt as it would be without the blocked_user test
system_prompt_all(W, msg, blocked_user) ==
    deliver_each(W, W.participants_, SystemLine(msg))

\* chat_room::system_prompt as it would be if it pushed the notice onto
\* recent_msgs_
system_prompt_stored(W, msg, blocked_user) ==
    deliver_each([W EXCEPT !.recent_msgs_ = Append(@, SystemLine(msg))],
                 {p \in W.participants_ : p # blocked_user}, SystemLine(msg))

\* chat_room::system_prompt
system_prompt(W, msg, blocked_user) ==
    deliver_each(W, {p \in W.participants_ : p # blocked_user}, SystemLine(msg))

\* chat_room::join
room_join(W, participant) ==
    LET W1 == [W EXCEPT !.participants_ = @ \cup {participant}]
        W2 == replay(W1, participant, W1.recent_msgs_)
        W3 == IF W2.recent_msgs_ # <<>>
              THEN session_deliver(W2, participant, DelimiterText)
              ELSE W2
    IN  system_prompt(W3, JoinNotice(W3.nickname_[participant]), participant)

\* chat_room::leave as it would be with erase(find(participant)): erasing
\* the end iterator of a set that lacks the participant is undefined, and
\* is taken here to drop the set's last element
room_leave_by_iterator(W, participant) ==
    IF participant \in W.participants_
    THEN [W EXCEPT !.participants_ = @ \ {participant}]
    ELSE [W EXCEPT !.participants_ =
              @ \ {p \in @ : \A q \in W.participants_ : q <= p}]

\* chat_room::leave as it would be if it also told the remaining members
\* that the participant has gone
room_leave_announces(W, participant) ==
    system_prompt([W EXCEPT !.participants_ = @ \ {participant}],
                  W.nickname_[participant], participant)

\* chat_room::leave
room_leave(W, participant) ==
    [W EXCEPT !.participants_ = @ \ {participant}]

RECURSIVE trim_newest(_)
\* trim as it would be with pop_back in place of pop_front
trim_newest(msgs) ==
    IF Len(msgs) > max_recent_msgs
    THEN trim_newest(SubSeq(msgs, 1, Len(msgs) - 1))
    ELSE msgs

RECURSIVE trim(_)
\* the while loop of chat_room::deliver: pop_front while over the limit
trim(msgs) == IF Len(msgs) > max_recent_msgs THEN trim(Tail(msgs)) ELSE msgs

\* chat_room::deliver as it would be without the sender != participant test
room_deliver_echo(W, msg, sender) ==
    LET line == SaysLine(W.nickname_[sender], msg)
        W1 == [W EXCEPT !.recent_msgs_ = trim(Append(@, line)),
                        !.delivered = Append(@, [sender |-> sender, text |-> line])]
    IN  deliver_each(W1, W1.participants_, line)

\* chat_room::deliver
room_deliver(W, msg, sender) ==
    LET line == SaysLine(W.nickname_[sender], msg)
        W1 == [W EXCEPT !.recent_msgs_ = trim(Append(@, line)),
                        !.delivered = Append(@, [sender |-> sender, text |-> line])]
    IN  deliver_each(W1, {p \in W1.participants_ : p # sender}, line)

\* -------------------------------------------------- completion handlers
\* A handler's own self is dropped when the handler returns; a step shows
\* only the owners left after it, so it is taken off first.
\* chat_session::start
start(W, s) == do_read_header(session_deliver(W, s, WelcomeText), s)

\* the handler of do_read_header's async_read; ec is TRUE for an error, h
\* the four bytes read
on_read_header(W, s, ec, h) ==
    LET W0 == [W EXCEPT !.rd_op[s] = "none", !.self_refs[s] = @ \ {"read"}]
        d == decode_header([W.read_msg_[s] EXCEPT !.hdr = h])
    IN  IF ~ec
        THEN IF d.ret
             THEN do_read_body([W0 EXCEPT !.read_msg_[s] = d.msg], s)
             ELSE room_leave([W0 EXCEPT !.read_msg_[s] = d.msg,
                                        !.failure[s] = @ \cup {"decode"}], s)
        ELSE room_leave([W0 EXCEPT !.failure[s] = @ \cup {"read"}], s)

\* the handler of do_read_body's async_read as it would be if every frame
\* set the nickname, not only the first
on_read_body_renames(W, s, ec, b) ==
    LET W0 == [W EXCEPT !.rd_op[s] = "none", !.self_refs[s] = @ \ {"read"}]
        W1 == [W0 EXCEPT !.read_msg_[s].body = b, !.nickname_[s] = b]
        W2 == IF W1.state_[s] = "NOT_AUTHED"
              THEN room_join(
                       session_deliver([W1 EXCEPT !.state_[s] = "AUTHED"],
                                       s, ConfirmText),
                       s)
              ELSE IF W1.state_[s] = "AUTHED"
              THEN room_deliver(W1, b, s)
              ELSE W1
    IN  IF ~ec
        THEN do_read_header(W2, s)
        ELSE room_leave([W0 EXCEPT !.failure[s] = @ \cup {"read"}], s)

\* the handler of do_read_body's async_read as it would be with
\* room_.join called before the confirmation line is delivered
on_read_body_joins_first(W, s, ec, b) ==
    LET W0 == [W EXCEPT !.rd_op[s] = "none", !.self_refs[s] = @ \ {"read"}]
        W1 == [W0 EXCEPT !.read_msg_[s].body = b]
        W2 == IF W1.state_[s] = "NOT_AUTHED"
              THEN session_deliver(
                       room_join([W1 EXCEPT !.nickname_[s] = b,
                                            !.state_[s] = "AUTHED"], s),
                       s, ConfirmText)
              ELSE IF W1.state_[s] = "AUTHED"
              THEN room_deliver(W1, b, s)
              ELSE W1
    IN  IF ~ec
        THEN do_read_header(W2, s)
        ELSE room_leave([W0 EXCEPT !.failure[s] = @ \cup {"read"}], s)

\* the handler of do_read_body's async_read as it would be if a frame of
\* an authenticated session were followed by room_.join as well
on_read_body_rejoins(W, s, ec, b) ==
    LET W0 == [W EXCEPT !.rd_op[s] = "none", !.self_refs[s] = @ \ {"read"}]
        W1 == [W0 EXCEPT !.read_msg_[s].body = b]
        W2 == IF W1.state_[s] = "NOT_AUTHED"
              THEN room_join(
                       session_deliver([W1 EXCEPT !.nickname_[s] = b,
                                                  !.state_[s] = "AUTHED"],
                                       s, ConfirmText),
                       s)
              ELSE IF W1.state_[s] = "AUTHED"
              THEN room_join(room_deliver(W1, b, s), s)
              ELSE W1
    IN  IF ~ec
        THEN do_read_header(W2, s)
        ELSE room_leave([W0 EXCEPT !.failure[s] = @ \cup {"read"}], s)

\* the handler of do_read_body's async_read; b is the body read
on_read_body(W, s, ec, b) ==
    LET W0 == [W EXCEPT !.rd_op[s] = "none", !.self_refs[s] = @ \ {"read"}]
        W1 == [W0 EXCEPT !.read_msg_[s].body = b]
        W2 == IF W1.state_[s] = "NOT_AUTHED"
              THEN room_join(
                       session_deliver([W1 EXCEPT !.nickname_[s] = b,
                                                  !.state_[s] = "AUTHED"],
                                       s, ConfirmText),
                       s)
              ELSE IF W1.state_[s] = "AUTHED"
              THEN room_deliver(W1, b, s)
              ELSE W1
    IN  IF ~ec
        THEN do_read_header(W2, s)
        ELSE room_leave([W0 EXCEPT !.failure[s] = @ \cup {"read"}], s)

\* the handler of do_write's async_write
on_write(W, s, ec) ==
    LET W0 == [W EXCEPT !.wr_op[s] = @ - 1, !.self_refs[s] = @ \ {"write"}]
        W1 == [W0 EXCEPT !.wire[s] = Append(@, Head(W.write_msgs_[s])),
                         !.write_msgs_[s] = Tail(@)]
    IN  IF ~ec
        THEN IF W1.write_msgs_[s] # <<>> THEN do_write(W1, s) ELSE W1
        ELSE room_leave([W0 EXCEPT !.failure[s] = @ \cup {"write"}], s)

\* --------------------------------------------------------------- inputs
\* The payload the client of session s sends next in Spec and SpecHistory:
\* its name ("A", "B", ...) while the session is not authenticated, then a
\* one-byte body that differs from every body sent before.  The server
\* never looks into a payload, so distinct labels lose nothing.
NextPayload(s) ==
    IF state_[s] = "NOT_AUTHED" THEN {<<64 + s>>} ELSE {<<97 + Len(delivered)>>}
\* headers a client may send in Spec: the one of a one-byte payload, built
\* by the client's chat_message constructor, and one that declares 513 bytes
Headers == {ChatMessage(<<97>>).hdr, <<0, 0, 2, 1>>}
\* the sampled headers whose big-endian value exceeds max_body_length
OversizedSamples == {h \in HeaderSamples : HeaderExceeds(h)}
\* headers a client may send in SpecFrame: every oversized sample, and the
\* header of a one-byte payload
FrameHeaders == OversizedSamples \cup {ChatMessage(<<97>>).hdr}
\* the payload lengths the client of session s may use next in SpecPayload:
\* the first session has an empty name and sends bodies as long as a frame
\* can carry; the second has a name that long and sends empty bodies
PayloadLengths(s) ==
    IF state_[s] = "NOT_AUTHED"
    THEN (IF s = 1 THEN {0} ELSE {max_body_length})
    ELSE (IF s = 1 THEN {max_body_length} ELSE {0})
\* the headers of those payloads, built by the client's constructor
PayloadHeaders(s) == {ChatMessage(Filler(n)).hdr : n \in PayloadLengths(s)}
\* the payloads themselves, labelled like those of NextPayload
Payloads(s) ==
    {[i \in 1..n |-> IF state_[s] = "NOT_AUTHED" THEN 64 + s
                     ELSE 97 + Len(delivered)] : n \in PayloadLengths(s)}

\* --------------------------------------------------- session ownership
\* use_count of the shared_ptr control block of session s: one owner for
\* each pending handler that captured self, one for the element of
\* participants_ when the session is a member
use_count(s) ==
    Cardinality(self_refs[s]) + (IF s \in participants_ THEN 1 ELSE 0)
\* the session object was made and its last owner is gone: ~chat_session
\* has run
Released(s) == s <= nsessions /\ use_count(s) = 0

\* ----------------------------------------------------------------- Init
ServerInit ==
    /\ acceptor_op = 1
    /\ nsessions = 0
    /\ state_ = [s \in Sessions |-> "NOT_AUTHED"]
    /\ nickname_ = [s \in Sessions |-> <<>>]
    /\ read_msg_ = [s \in Sessions |-> EmptyMessage]
    /\ write_msgs_ = [s \in Sessions |-> <<>>]
    /\ rd_op = [s \in Sessions |-> "none"]
    /\ wr_op = [s \in Sessions |-> 0]
    /\ participants_ = {}
    /\ recent_msgs_ = <<>>
    /\ enqlog = [s \in Sessions |-> <<>>]
    /\ wire = [s \in Sessions |-> <<>>]
    /\ failure = [s \in Sessions |-> {}]
    /\ delivered = <<>>
    /\ self_refs = [s \in Sessions |-> {}]
    /\ accept_errors = 0

Init ==
    /\ char_signed \in BOOLEAN
    /\ CodecInit
    /\ ServerInit

\* -------------------------------------------------------------- actions
\* the bounds of a run: frames enqueued per session, Room.deliver calls
WithinBounds(maxFrames, maxDelivered) ==
    /\ \A p \in Sessions : Len(enqlog'[p]) <= maxFrames
    /\ Len(delivered') <= maxDelivered

\* the handler of do_accept's async_accept as it would be with the call
\* of do_accept() inside the if (!ec) block
AcceptHandler_stops_on_error(ec, SS, maxErrors) ==
    /\ acceptor_op > 0
    /\ acceptor_op' = (acceptor_op - 1) + (IF ~ec THEN 1 ELSE 0)
    /\ IF ~ec
       THEN /\ nsessions + 1 \in SS
            /\ nsessions' = nsessions + 1
            /\ SetWorld(start(World, nsessions + 1))
            /\ UNCHANGED accept_errors
       ELSE /\ accept_errors' = Min(accept_errors + 1, maxErrors)
            /\ UNCHANGED <<nsessions, state_, nickname_, read_msg_,
                           write_msgs_, rd_op, wr_op, participants_,
                           recent_msgs_, enqlog, wire, failure, delivered,
                           self_refs>>
    /\ UNCHANGED <<char_signed, codecVars>>

\* the handler of do_accept's async_accept: a session is made and started
\* when there is no error, and the next accept is started either way; up
\* to maxErrors of the errors are counted
AcceptHandler(ec, SS, maxErrors) ==
    /\ acceptor_op > 0
    /\ acceptor_op' = (acceptor_op - 1) + 1
    /\ IF ~ec
       THEN /\ nsessions + 1 \in SS
            /\ nsessions' = nsessions + 1
            /\ SetWorld(start(World, nsessions + 1))
            /\ UNCHANGED accept_errors
       ELSE /\ accept_errors' = Min(accept_errors + 1, maxErrors)
            /\ UNCHANGED <<nsessions, state_, nickname_, read_msg_,
                           write_msgs_, rd_op, wr_op, participants_,
                           recent_msgs_, enqlog, wire, failure, delivered,
                           self_refs>>
    /\ UNCHANGED <<char_signed, codecVars>>

ReadHeaderHandler(s, ec, h) ==
    /\ s <= nsessions
    /\ rd_op[s] = "header"
    /\ SetWorld(on_read_header(World, s, ec, h))
    /\ UNCHANGED <<char_signed, codecVars, acceptor_op, nsessions,
                   accept_errors>>

ReadBodyHandler(s, ec, b) ==
    /\ s <= nsessions
    /\ rd_op[s] = "body"
    /\ Len(b) = read_msg_[s].body_length_
    /\ SetWorld(on_read_body(World, s, ec, b))
    /\ UNCHANGED <<char_signed, codecVars, acceptor_op, nsessions,
                   accept_errors>>

WriteHandler(s, ec) ==
    /\ s <= nsessions
    /\ wr_op[s] > 0
    /\ SetWorld(on_write(World, s, ec))
    /\ UNCHANGED <<char_signed, codecVars, acceptor_op, nsessions,
                   accept_errors>>

\* ------------------------------------------------------- specifications
\* Two sessions; clients send the headers of Headers and one-byte payloads.
Next ==
    \/ \E ec \in BOOLEAN : AcceptHandler(ec, Sessions, 0)
    \/ \E s \in Sessions, ec \in BOOLEAN, h \in Headers :
          ReadHeaderHandler(s, ec, h)
    \/ \E s \in Sessions, ec \in BOOLEAN :
          \E b \in NextPayload(s) :
             /\ ReadBodyHandler(s, ec, b)
             /\ WithinBounds(MaxFrames, MaxDelivered)
    \/ \E s \in Sessions, ec \in BOOLEAN : WriteHandler(s, ec)

Spec == Init /\ [][Next]_vars

SpecCodec == Init /\ [][CodecNext]_vars

\* One session, whose client may send any sampled oversized header.
NextFrame ==
    \/ \E ec \in BOOLEAN : AcceptHandler(ec, {1}, 0)
    \/ \E ec \in BOOLEAN, h \in FrameHeaders : ReadHeaderHandler(1, ec, h)
    \/ \E ec \in BOOLEAN :
          \E b \in NextPayload(1) :
             /\ ReadBodyHandler(1, ec, b)
             /\ WithinBounds(MaxFrames, MaxFrameDelivered)
    \/ \E ec \in BOOLEAN : WriteHandler(1, ec)

SpecFrame == Init /\ [][NextFrame]_vars

\* One session that sends max_recent_msgs + 2 messages, each a new body.
NextHistory ==
    \/ \E ec \in BOOLEAN : AcceptHandler(ec, {1}, 0)
    \/ \E ec \in BOOLEAN, h \in Headers : ReadHeaderHandler(1, ec, h)
    \/ \E ec \in BOOLEAN :
          \E b \in NextPayload(1) :
             /\ ReadBodyHandler(1, ec, b)
             /\ WithinBounds(MaxFrames, MaxHistDelivered)
    \/ \E ec \in BOOLEAN : WriteHandler(1, ec)

SpecHistory == Init /\ [][NextHistory]_vars

\* Two sessions, one with an empty name and bodies of 512 bytes, one with
\* a name of 512 bytes and empty bodies.
NextPayloads ==
    \/ \E ec \in BOOLEAN : AcceptHandler(ec, Sessions, 0)
    \/ \E s \in Sessions, ec \in BOOLEAN :
          \E h \in PayloadHeaders(s) : ReadHeaderHandler(s, ec, h)
    \/ \E s \in Sessions, ec \in BOOLEAN :
          \E b \in Payloads(s) :
             /\ ReadBodyHandler(s, ec, b)
             /\ WithinBounds(MaxPayloadFrames, MaxPayloadDelivered)
    \/ \E s \in Sessions, ec \in BOOLEAN : WriteHandler(s, ec)

SpecPayload == Init /\ [][NextPayloads]_vars

\* Two sessions and a listener whose accept errors are counted.
NextListener ==
    \/ \E ec \in BOOLEAN : AcceptHandler(ec, Sessions, MaxAcceptErrors)
    \/ \E s \in Sessions, ec \in BOOLEAN, h \in Headers :
          ReadHeaderHandler(s, ec, h)
    \/ \E s \in Sessions, ec \in BOOLEAN :
          \E b \in NextPayload(s) :
             /\ ReadBodyHandler(s, ec, b)
             /\ WithinBounds(MaxFrames, MaxFrameDelivered)
    \/ \E s \in Sessions, ec \in BOOLEAN : WriteHandler(s, ec)

SpecListener == Init /\ [][NextListener]_vars

\* =============================================================== claims
IsPrefix(a, b) == Len(a) <= Len(b) /\ SubSeq(b, 1, Len(a)) = a
LastN(q, n) == SubSeq(q, Len(q) - n + 1, Len(q))
Texts(d) == [i \in 1..Len(d) |-> d[i].text]
Frames(msgs) == [i \in 1..Len(msgs) |-> ChatMessage(msgs[i])]

\* C1: for every body length n in 0..512, decode_header on the header that
\* chat_message(msg) encoded for a message of n bytes returns true and
\* leaves body_length equal to n.
C1_RoundTrip ==
    (cm_src.kind = "ctor" /\ cm_src.n <= max_body_length /\ cm_ret # "none")
        => (cm_ret = "true" /\ cm.body_length_ = cm_src.n)

\* the session s has just had its header read complete without a read
\* error, and the four bytes declare more than max_body_length
OversizedHeaderRead(s) ==
    /\ rd_op[s] = "header"
    /\ rd_op'[s] # "header"
    /\ "read" \notin failure'[s]
    /\ HeaderExceeds(read_msg_'[s].hdr)

\* C2: a header whose big-endian unsigned value exceeds 512 is refused by
\* decode_header (the length is not kept, not even cut to 512), and the
\* session that read it starts no body read, is out of the room's
\* membership and has no read outstanding afterwards.
C2_Rejection ==
    [][\A s \in Sessions :
          OversizedHeaderRead(s) =>
              /\ "decode" \in failure'[s]
              /\ read_msg_'[s].body_length_ = 0
              /\ rd_op'[s] = "none"
              /\ s \notin participants_'
              /\ participants_' = participants_ \ {s}]_vars

\* an authenticated member read an oversized header and is out of the room
C2_Witness ==
    \E s \in Sessions :
        /\ "decode" \in failure[s]
        /\ state_[s] = "AUTHED"
        /\ "write" \notin failure[s]
        /\ HeaderExceeds(read_msg_[s].hdr)
        /\ read_msg_[s].hdr[4] >= 128
        /\ s \notin participants_

\* the step is a call of chat_room::deliver
RoomDeliverStep == Len(delivered') = Len(delivered) + 1
LastDelivered == delivered'[Len(delivered')]

\* C3: a call Room.deliver(body, sender) enqueues nothing on the sender,
\* exactly one frame, the formatted line, on every other session that is a
\* member at the time of the call, and nothing on a session that is not.
C3_NoEcho ==
    [][RoomDeliverStep =>
          \A r \in Sessions :
              write_msgs_'[r] =
                  IF r \in participants_ /\ r # LastDelivered.sender
                  THEN Append(write_msgs_[r], ChatMessage(LastDelivered.text))
                  ELSE write_msgs_[r]]_vars

\* a member other than the sender holds the line of a delivered message,
\* and the sender's log holds no such line
C3_Witness ==
    /\ delivered # <<>>
    /\ \E r \in Sessions :
          /\ r # delivered[1].sender
          /\ \E i \in 1..Len(enqlog[r]) : enqlog[r][i] = ChatMessage(delivered[1].text)
    /\ \A i \in 1..Len(enqlog[delivered[1].sender]) :
          enqlog[delivered[1].sender][i] # ChatMessage(delivered[1].text)

\* C4: the history never holds more than 100 entries and is always the last
\* min(k, 100) formatted messages of the k delivered so far, oldest first.
C4_BoundedHistory ==
    /\ Len(recent_msgs_) <= max_recent_msgs
    /\ recent_msgs_ =
           LastN(Texts(delivered), Min(Len(delivered), max_recent_msgs))

\* 101 messages were delivered and the history is messages 2 through 101
C4_Witness ==
    /\ Len(delivered) = max_recent_msgs + 1
    /\ Len(recent_msgs_) = max_recent_msgs
    /\ recent_msgs_[1] = delivered[2].text
    /\ recent_msgs_[max_recent_msgs] = delivered[max_recent_msgs + 1].text
    /\ delivered[1].text # delivered[2].text

\* the step is the one in which session s receives its name and joins
JoinStep(s) == state_[s] = "NOT_AUTHED" /\ state_'[s] = "AUTHED"
\* the frames join puts on the joining session: the history as it is
\* before the step, then the delimiter when that history is not empty
ReplayFrames ==
    Frames(recent_msgs_)
        \o (IF recent_msgs_ # <<>> THEN <<ChatMessage(DelimiterText)>> ELSE <<>>)

\* C5: a joining session's queue receives every entry of the history as it
\* was at join time, oldest first, then one delimiter notice exactly when
\* that history was not empty; before that the session was sent only the
\* welcome and the confirmation, and every frame enqueued later comes after
\* them, because a session's log only ever grows at its end.
C5_JoinReplay ==
    [][\A s \in Sessions :
          /\ IsPrefix(enqlog[s], enqlog'[s])
          /\ JoinStep(s) =>
                /\ enqlog'[s] = <<ChatMessage(WelcomeText), ChatMessage(ConfirmText)>>
                                  \o ReplayFrames
                /\ write_msgs_'[s] = write_msgs_[s] \o <<ChatMessage(ConfirmText)>>
                                       \o ReplayFrames]_vars

\* a session joined a room whose history had one entry, was sent that
\* entry and the delimiter, and later a live broadcast
C5_Witness ==
    \E s \in Sessions :
        /\ Len(delivered) = 2
        /\ Len(enqlog[s]) = 5
        /\ enqlog[s][3] = ChatMessage(delivered[1].text)
        /\ enqlog[s][4] = ChatMessage(DelimiterText)
        /\ enqlog[s][5] = ChatMessage(delivered[2].text)

\* a write on session s completed in this step, with or without an error
WriteCompleted(s) ==
    \/ wire'[s] # wire[s]
    \/ "write" \in failure'[s] \ failure[s]
\* the writes session s started in this step
WritesStarted(s) ==
    wr_op'[s] - wr_op[s] + (IF WriteCompleted(s) THEN 1 ELSE 0)

\* C6: a session never has more than one write outstanding; a write starts
\* only when deliver appends to an empty queue or when the completion
\* handler of the previous write finds the queue not empty; what has been
\* written is always the front part of what deliver enqueued, in order.
C6_WriteOrder ==
    /\ [](\A s \in Sessions :
             /\ wr_op[s] <= 1
             /\ IsPrefix(wire[s], enqlog[s])
             /\ (wr_op[s] = 1 => write_msgs_[s] # <<>>))
    /\ [][\A s \in Sessions :
             /\ WritesStarted(s) \in {0, 1}
             /\ WritesStarted(s) = 1 =>
                   \/ write_msgs_[s] = <<>> /\ Len(enqlog'[s]) > Len(enqlog[s])
                   \/ wire'[s] # wire[s] /\ write_msgs_'[s] # <<>>
             /\ wire'[s] # wire[s] =>
                   /\ wr_op[s] = 1
                   /\ wire'[s] = Append(wire[s], Head(write_msgs_[s]))]_vars

\* two frames are on the wire, a write is outstanding and a further frame
\* waits behind the one being written
C6_Witness ==
    \E s \in Sessions :
        /\ Len(wire[s]) >= 2
        /\ wr_op[s] = 1
        /\ Len(write_msgs_[s]) >= 2

\* C7: Room.leave(s) removes exactly s when s is a member and changes
\* nothing when it is not, so a second leave for the same session (its
\* read failure after its write failure, or the reverse) leaves the
\* membership as the first call left it.
C7_IdempotentLeave ==
    [][\A s \in Sessions :
          failure'[s] # failure[s] => participants_' = participants_ \ {s}]_vars

\* both a read and a write of a joined session failed while the other
\* session stayed a member
C7_Witness ==
    \E s \in Sessions :
        /\ {"read", "write"} \subseteq failure[s]
        /\ state_[s] = "AUTHED"
        /\ participants_ = Sessions \ {s}

\* C8: a session on which a read, decode or write failure has occurred is
\* not in the room's membership set, in that state and in every later one.
C8_FailedNotMember ==
    \A s \in Sessions : failure[s] # {} => s \notin participants_

\* C9: once a session has had a read, decode or write failure it starts no
\* further header or body read and makes no further Room.join or
\* Room.deliver call.
C9_ClosedTerminal ==
    [][\A s \in Sessions :
          failure[s] # {} =>
              /\ rd_op'[s] = rd_op[s] \/ rd_op'[s] = "none"
              /\ ~JoinStep(s)
              /\ ~(RoomDeliverStep /\ LastDelivered.sender = s)]_vars

\* the join notice that announces session s after the step
JoinNoticeFrame(s) == ChatMessage(SystemLine(JoinNotice(nickname_'[s])))

\* C10: Room.join(s) enqueues exactly one join notice on every session
\* that is a member other than s at that time, nothing on a session that
\* is not, and no join notice on s itself.
C10_JoinNotice ==
    [][\A s \in Sessions :
          JoinStep(s) =>
              /\ \A r \in Sessions \ {s} :
                    write_msgs_'[r] =
                        IF r \in participants_
                        THEN Append(write_msgs_[r], JoinNoticeFrame(s))
                        ELSE write_msgs_[r]
              /\ \A i \in 1..Len(enqlog'[s]) : enqlog'[s][i] # JoinNoticeFrame(s)]_vars

\* a member was sent the join notice of the other session, whose own log
\* holds none
C10_Witness ==
    \E s \in Sessions, r \in Sessions :
        /\ r # s
        /\ state_[s] = "AUTHED"
        /\ \E i \in 1..Len(enqlog[r]) :
              enqlog[r][i] = ChatMessage(SystemLine(JoinNotice(nickname_[s])))
        /\ \A i \in 1..Len(enqlog[s]) :
              enqlog[s][i] # ChatMessage(SystemLine(JoinNotice(nickname_[s])))

\* C11: the handling of a read, decode or write failure of session s
\* removes s from the membership and changes nothing else outside s: not
\* the history, not the membership of another session, and no other
\* session's authentication state, nickname, queue or pending operations.
C11_ErrorContainment ==
    [][\A s \in Sessions :
          failure'[s] # failure[s] =>
              /\ recent_msgs_' = recent_msgs_
              /\ delivered' = delivered
              /\ participants_' \ {s} = participants_ \ {s}
              /\ s \notin participants_'
              /\ \A r \in Sessions \ {s} :
                    /\ state_'[r] = state_[r]
                    /\ nickname_'[r] = nickname_[r]
                    /\ write_msgs_'[r] = write_msgs_[r]
                    /\ read_msg_'[r] = read_msg_[r]
                    /\ rd_op'[r] = rd_op[r]
                    /\ wr_op'[r] = wr_op[r]]_vars

\* a joined session failed while the other session was a member with
\* frames waiting in its queue and a history in the room
C11_Witness ==
    \E s \in Sessions, r \in Sessions :
        /\ r # s
        /\ failure[s] # {}
        /\ state_[s] = "AUTHED"
        /\ s \notin participants_
        /\ r \in participants_
        /\ failure[r] = {}
        /\ Len(write_msgs_[r]) >= 2
        /\ recent_msgs_ # <<>>

\* the payload bytes a frame carries on the wire
Payload(f) == SubSeq(f.body, 1, f.body_length_)
\* the last frame enqueued on session r in the step
LastEnqueued(r) == enqlog'[r][Len(enqlog'[r])]

\* C12: for a call Room.deliver(body, sender), the payload of the frame
\* enqueued on each recipient is the whole text "<nickname> says: <body>",
\* the same string that is appended to the history, for every nickname and
\* body of 0..512 bytes.
C12_BroadcastPayload ==
    [][RoomDeliverStep =>
          LET sender == LastDelivered.sender
              text == nickname_[sender] \o SaysText \o read_msg_'[sender].body
          IN  /\ recent_msgs_'[Len(recent_msgs_')] = text
              /\ \A r \in participants_ \ {sender} :
                    Payload(LastEnqueued(r)) = text]_vars

\* the per-session state of every session but n is as it was
OthersUnchanged(n) ==
    \A r \in Sessions \ {n} :
        /\ state_'[r] = state_[r]
        /\ nickname_'[r] = nickname_[r]
        /\ read_msg_'[r] = read_msg_[r]
        /\ write_msgs_'[r] = write_msgs_[r]
        /\ enqlog'[r] = enqlog[r]
        /\ rd_op'[r] = rd_op[r]
        /\ wr_op'[r] = wr_op[r]

\* C13: one accept is outstanding after every accept completion, with or
\* without an error; a successful accept makes exactly one new session,
\* not authenticated and not yet a member of the one room, and starts it
\* (welcome line enqueued, header read outstanding); an accept that
\* completes with an error makes no session and changes no session.
C13_KeepsAccepting ==
    /\ [](acceptor_op = 1)
    /\ [][/\ accept_errors' # accept_errors =>
                /\ nsessions' = nsessions
                /\ participants_' = participants_
                /\ OthersUnchanged(0)
          /\ nsessions' # nsessions =>
                /\ nsessions' = nsessions + 1
                /\ accept_errors' = accept_errors
                /\ state_'[nsessions'] = "NOT_AUTHED"
                /\ nickname_'[nsessions'] = <<>>
                /\ enqlog'[nsessions'] = <<ChatMessage(WelcomeText)>>
                /\ rd_op'[nsessions'] = "header"
                /\ wr_op'[nsessions'] = 1
                /\ participants_' = participants_
                /\ recent_msgs_' = recent_msgs_
                /\ OthersUnchanged(nsessions')]_vars

\* two accepts failed, two succeeded, and the sessions made are in use
C13_Witness ==
    /\ accept_errors >= 2
    /\ nsessions = 2
    /\ acceptor_op = 1
    /\ participants_ = {1, 2}

\* C14: a session's nickname is set once, to the payload of the first
\* frame it receives, whatever its bytes and also when it is empty, in the
\* step that moves the session from NOT_AUTHED to AUTHED; no later step
\* changes it, and no session goes back from AUTHED to NOT_AUTHED.
C14_NicknameOnce ==
    [][\A s \in Sessions :
          /\ state_'[s] # state_[s] => JoinStep(s)
          /\ nickname_'[s] # nickname_[s] => JoinStep(s)
          /\ JoinStep(s) =>
                /\ rd_op[s] = "body"
                /\ wire[s] \in {<<>>, <<ChatMessage(WelcomeText)>>}
                /\ nickname_'[s] = Payload(read_msg_'[s])
          /\ state_[s] = "AUTHED" =>
                /\ state_'[s] = "AUTHED"
                /\ nickname_'[s] = nickname_[s]]_vars

\* the first session has the empty name and the second a name of 512
\* bytes, and the first has since sent a body that is not its name
C14_Witness ==
    /\ state_[1] = "AUTHED"
    /\ nickname_[1] = <<>>
    /\ state_[2] = "AUTHED"
    /\ Len(nickname_[2]) = max_body_length
    /\ \E i \in 1..Len(delivered) : delivered[i].sender = 1
    /\ Payload(read_msg_[1]) # nickname_[1]

\* C15: the first frame ever enqueued on a session is the welcome line, and
\* it is there from the moment the session exists, before any read of it
\* is outstanding; nothing else is enqueued on a session that is not yet
\* authenticated, and such a session is not a member; the second frame of
\* an authenticated session is the confirmation line, so the history
\* replay and the delimiter that Room.join enqueues come after it; neither
\* line is enqueued again; the wire carries the frames in that order.
C15_GreetingOrder ==
    \A s \in Sessions :
        /\ s > nsessions => enqlog[s] = <<>> /\ rd_op[s] = "none"
        /\ s <= nsessions =>
              /\ enqlog[s] # <<>>
              /\ enqlog[s][1] = ChatMessage(WelcomeText)
        /\ state_[s] = "NOT_AUTHED" =>
              /\ Len(enqlog[s]) <= 1
              /\ s \notin participants_
        /\ state_[s] = "AUTHED" =>
              /\ Len(enqlog[s]) >= 2
              /\ enqlog[s][2] = ChatMessage(ConfirmText)
        /\ \A i \in 3..Len(enqlog[s]) :
              enqlog[s][i] \notin {ChatMessage(WelcomeText), ChatMessage(ConfirmText)}
        /\ Len(wire[s]) <= Len(enqlog[s])
        /\ \A i \in 1..Len(wire[s]) : wire[s][i] = enqlog[s][i]

\* a session that joined a room with a history has had the welcome, the
\* confirmation, the history entry and the delimiter written, in that order
C15_Witness ==
    \E s \in Sessions :
        /\ Len(wire[s]) >= 4
        /\ wire[s][1] = ChatMessage(WelcomeText)
        /\ wire[s][2] = ChatMessage(ConfirmText)
        /\ wire[s][3] = ChatMessage(delivered[1].text)
        /\ wire[s][4] = ChatMessage(DelimiterText)

\* C16: the history changes only in a call of Room.deliver, which puts
\* exactly one entry, the formatted line, at its end (dropping the oldest
\* entries beyond the capacity); a join, with its replay, delimiter and
\* join notice, a leave and every other step leave the history as it was.
C16_HistoryOnlyByDeliver ==
    [][/\ ~RoomDeliverStep => recent_msgs_' = recent_msgs_
       /\ RoomDeliverStep =>
             LET appended == Append(recent_msgs_, LastDelivered.text)
             IN  /\ delivered' = Append(delivered, LastDelivered)
                 /\ recent_msgs_' =
                       LastN(appended, Min(Len(appended), max_recent_msgs))
       /\ \A s \in Sessions :
             (JoinStep(s) \/ failure'[s] # failure[s]) => ~RoomDeliverStep]_vars

\* with two lines delivered and kept, one session has since joined and
\* been sent the delimiter, the other was sent its join notice, and a
\* failure has taken a session out of the room
C16_Witness ==
    \E s \in Sessions, r \in Sessions :
        /\ r # s
        /\ Len(recent_msgs_) = 2
        /\ recent_msgs_ = Texts(delivered)
        /\ \E i \in 1..Len(enqlog[s]) : enqlog[s][i] = ChatMessage(DelimiterText)
        /\ \E i \in 1..Len(enqlog[r]) :
              enqlog[r][i] = ChatMessage(SystemLine(JoinNotice(nickname_[s])))
        /\ \E q \in Sessions : state_[q] = "AUTHED" /\ q \notin participants_

\* a read or a write of session s is outstanding
OperationPending(s) == rd_op[s] # "none" \/ wr_op[s] > 0

\* C17: a session object is not released while one of its reads or writes
\* is outstanding: each outstanding operation's handler owns the session;
\* a session that a failure took out of the room stays alive as long as
\* one of the operations it started is outstanding, and is released when
\* none is.
C17_AliveWhilePending ==
    \A s \in Sessions :
        /\ rd_op[s] # "none" => "read" \in self_refs[s]
        /\ wr_op[s] > 0 => "write" \in self_refs[s]
        /\ OperationPending(s) => ~Released(s)
        /\ s \in participants_ => ~Released(s)
        /\ (s <= nsessions /\ ~OperationPending(s)) => Released(s)

\* one session has failed and been released; the other has failed too and
\* is out of the room, and is alive because its write is still outstanding
C17_Witness ==
    \E s \in Sessions, r \in Sessions :
        /\ r # s
        /\ failure[s] # {}
        /\ Released(s)
        /\ state_[r] = "AUTHED"
        /\ "read" \in failure[r]
        /\ r \notin participants_
        /\ wr_op[r] = 1
        /\ use_count(r) = 1

\* C18: every call Room.deliver(body, sender) is made by a session that is
\* in the membership set at the time of the call, so a session that leave
\* has removed adds no further history entry and no further broadcast.
C18_SenderIsMember ==
    [][RoomDeliverStep => LastDelivered.sender \in participants_]_vars

\* C19: every frame a session has put on the wire is well formed: its four
\* header bytes declare, big-endian, a length n of at most 512, exactly n
\* payload bytes follow them, and 4 + n bytes are written in all; this
\* holds for every text passed to chat_session::deliver, also for one of
\* more than 512 bytes.
C19_WellFormedFrames ==
    \A s \in Sessions :
        \A i \in 1..Len(wire[s]) :
            LET f == wire[s][i]
            IN  /\ Len(f.hdr) = header_length
                /\ f.hdr[1] = 0
                /\ f.hdr[2] = 0
                /\ f.hdr[3] * 256 + f.hdr[4] = f.body_length_
                /\ f.body_length_ <= max_body_length
                /\ Len(f.body) = f.body_length_
                /\ FrameLength(f) = header_length + Len(f.body)

\* a session has written the frame of a broadcast line of more than 512
\* bytes, and the frame carries 512 of them
C19_Witness ==
    \E s \in Sessions :
        \E i \in 1..Len(wire[s]), k \in 1..Len(delivered) :
            /\ Len(delivered[k].text) > max_body_length
            /\ wire[s][i] = ChatMessage(delivered[k].text)
            /\ wire[s][i].body_length_ = max_body_length
            /\ wire[s][i].hdr = <<0, 0, 2, 0>>

\* how many times frame x was enqueued in the log q
Count(q, x) == Cardinality({i \in 1..Len(q) : q[i] = x})

\* C20: every member of the room is an existing session in state AUTHED
\* with a nickname assigned, and Room.join runs at most once for a
\* session: a session enters the membership only in the step that
\* authenticates it, is sent the confirmation and the delimiter after the
\* replay at most once, and its join notice reaches each other session at
\* most once.
C20_MembersAuthedJoinOnce ==
    /\ [](\A s \in Sessions :
             /\ s \in participants_ =>
                   /\ s <= nsessions
                   /\ state_[s] = "AUTHED"
                   /\ nickname_[s] # <<>>
             /\ Count(enqlog[s], ChatMessage(ConfirmText)) <= 1
             /\ Count(enqlog[s], ChatMessage(DelimiterText)) <= 1
             /\ \A r \in Sessions :
                   Count(enqlog[r],
                         ChatMessage(SystemLine(JoinNotice(nickname_[s])))) <= 1)
    /\ [][\A s \in Sessions :
             s \in participants_' \ participants_ => JoinStep(s)]_vars

\* both sessions are members; one joined a room with a history and was
\* sent its replay and one delimiter, the other was sent one join notice,
\* and both have taken frames since
C20_Witness ==
    \E s \in Sessions, r \in Sessions :
        /\ r # s
        /\ participants_ = {s, r}
        /\ Len(delivered) = 2
        /\ Count(enqlog[s], ChatMessage(DelimiterText)) = 1
        /\ Count(enqlog[r], ChatMessage(SystemLine(JoinNotice(nickname_[s])))) = 1
        /\ rd_op[s] = "header"
        /\ rd_op[r] = "header"

====
